---- MODULE Spec2Model ----
(***************************************************************************)
(* A model of src/weather_analyzer.py: the WeatherAnalyzer class, its      *)
(* loader (load_all_data), its three aggregations and the pipeline         *)
(* run_complete_analysis.                                                  *)
(*                                                                         *)
(* Representation.  Text that the code inspects character by character (a  *)
(* file name, the text of a CSV cell) is a sequence of one-character       *)
(* strings.  A pandas cell is a tagged record: NaN, a number or a string.  *)
(* Temperatures are whole numbers (a fixed-point reading of the floats).   *)
(* A mean is kept as the exact fraction sum/count and a standard deviation *)
(* as the exact fraction of its square (the sample variance); the square   *)
(* root is strictly increasing, so order and equality of deviations are    *)
(* those of the variances.                                                 *)
(***************************************************************************)
EXTENDS Integers, Sequences, FiniteSets, TLC

(***************************************************************************)
(* Bounds of the model.                                                    *)
(***************************************************************************)
MaxFiles == 2      \* entries of the data folder
MaxRows == 2       \* data lines of an enumerated CSV table
MaxRecords == 4    \* records of an enumerated all_data table
MaxTemp == 2       \* temperatures of an enumerated all_data table: 0..MaxTemp

(***************************************************************************)
(* Text helpers: str.split('_')[-1], str.replace('.csv', ''), int(), float *)
(***************************************************************************)
Csv == <<".", "c", "s", "v">>

DigitVal ==
  [c \in {"0", "1", "2", "3", "4", "5", "6", "7", "8", "9"} |->
     CASE c = "0" -> 0 [] c = "1" -> 1 [] c = "2" -> 2 [] c = "3" -> 3
       [] c = "4" -> 4 [] c = "5" -> 5 [] c = "6" -> 6 [] c = "7" -> 7
       [] c = "8" -> 8 [] c = "9" -> 9]

IsDigit(c) == c \in DOMAIN DigitVal

IsSuffix(p, s) == Len(p) <= Len(s) /\ SubSeq(s, Len(s) - Len(p) + 1, Len(s)) = p

\* s.split(sep)[-1]: the text after the last sep, all of s when it holds none.
LastSegment(s, sep) ==
  LET seps == {i \in 1..Len(s) : s[i] = sep}
  IN IF seps = {} THEN s
     ELSE SubSeq(s, (CHOOSE i \in seps : \A j \in seps : j <= i) + 1, Len(s))

\* s.replace(sub, ''): every occurrence of sub removed, scanning left to right.
\* Rest[i] is the result for the text from position i on.
RemoveAll(s, sub) ==
  LET Rest[i \in 1..(Len(s) + 1)] ==
        IF i > Len(s) THEN <<>>
        ELSE IF i + Len(sub) - 1 <= Len(s) /\ SubSeq(s, i, i + Len(sub) - 1) = sub
             THEN Rest[i + Len(sub)]
             ELSE <<s[i]>> \o Rest[i + 1]
  IN Rest[1]

\* The number a text of decimal digits denotes.
DigitsValue(s) ==
  LET Value[i \in 0..Len(s)] ==
        IF i = 0 THEN 0 ELSE 10 * Value[i - 1] + DigitVal[s[i]]
  IN Value[Len(s)]

Failed == [ok |-> FALSE, v |-> 0]

Parsed(n) == [ok |-> TRUE, v |-> n]

\* int(text): an optional sign and at least one decimal digit; anything else
\* raises ValueError (ok = FALSE).
ParseInt[s \in Seq(STRING)] ==
  LET body == IF s # <<>> /\ Head(s) \in {"-", "+"} THEN Tail(s) ELSE s
  IN IF body = <<>> \/ \E i \in 1..Len(body) : ~IsDigit(body[i]) THEN Failed
     ELSE IF s # <<>> /\ Head(s) = "-" THEN Parsed(0 - DigitsValue(body))
     ELSE Parsed(DigitsValue(body))

\* float(text) of a str cell.  Temperatures are whole numbers in this model, so
\* the accepted texts are those of int().
ParseFloat[s \in Seq(STRING)] == ParseInt[s]

(***************************************************************************)
(* pandas values.  A cell of a DataFrame is NaN, a number or a str.        *)
(***************************************************************************)
NaN == [k |-> "nan", v |-> 0, s |-> <<>>]

Num(n) == [k |-> "num", v |-> n, s |-> <<>>]

Str(t) == [k |-> "str", v |-> 0, s |-> t]

\* pd.isna(value)
IsNa(c) == c.k = "nan"

\* float(value): a number converts to itself, a str is parsed.
ToFloat(c) ==
  IF c.k = "num" THEN Parsed(c.v)
  ELSE IF c.k = "str" THEN ParseFloat[c.s]
  ELSE Failed

\* self.all_data = pd.DataFrame(): a table without rows.
EmptyDataFrame == <<>>

season_mapping ==
  [m \in {"December", "January", "February", "March", "April", "May", "June",
          "July", "August", "September", "October", "November"} |->
     CASE m \in {"December", "January", "February"} -> "Summer"
       [] m \in {"March", "April", "May"} -> "Autumn"
       [] m \in {"June", "July", "August"} -> "Winter"
       [] m \in {"September", "October", "November"} -> "Spring"]

month_columns ==
  <<"January", "February", "March", "April", "May", "June",
    "July", "August", "September", "October", "November", "December">>

(***************************************************************************)
(* A file of the data folder: its name and its content.  The content is    *)
(* either text pd.read_csv cannot parse (parseable = FALSE: an empty file, *)
(* a broken encoding), or a header line and data lines of cell texts.      *)
(***************************************************************************)
Unparseable == [parseable |-> FALSE, header |-> <<>>, lines |-> <<>>]

Table(header, lines) == [parseable |-> TRUE, header |-> header, lines |-> lines]

\* Whether read_csv infers a numeric column: every cell that is not empty is
\* the text of a number.
NumericColumn(lines, j) ==
  \A i \in 1..Len(lines) : lines[i][j] = <<>> \/ ParseFloat[lines[i][j]].ok

\* pd.read_csv of a parseable file: an empty cell is NaN; the cells of a
\* numeric column are numbers, those of any other column stay str.
ReadCsv(content) ==
  [columns |-> content.header,
   rows |-> [i \in 1..Len(content.lines) |->
              [j \in 1..Len(content.header) |->
                 IF content.lines[i][j] = <<>> THEN NaN
                 ELSE IF NumericColumn(content.lines, j)
                      THEN Num(ParseFloat[content.lines[i][j]].v)
                      ELSE Str(content.lines[i][j])]]]

HasColumn(df, name) == \E j \in 1..Len(df.columns) : df.columns[j] = name

\* row[name]
Cell(df, i, name) ==
  df.rows[i][CHOOSE j \in 1..Len(df.columns) : df.columns[j] = name]

\* glob.glob(os.path.join(data_folder, "*.csv")): the entries whose name ends
\* in .csv and does not start with a dot, in directory order.
Glob(dir) ==
  SelectSeq(dir, LAMBDA f : IsSuffix(Csv, f.name) /\ Head(f.name) # ".")

(***************************************************************************)
(* load_all_data                                                           *)
(***************************************************************************)
\* year = int(filename.split('_')[-1].replace('.csv', ''))
ExtractYear(filename) == ParseInt[RemoveAll(LastSegment(filename, "_"), Csv)]

\* The first of STATION_NAME, Station, station among the columns.
StationCol(df) ==
  IF HasColumn(df, "STATION_NAME") THEN "STATION_NAME"
  ELSE IF HasColumn(df, "Station") THEN "Station"
  ELSE IF HasColumn(df, "station") THEN "station"
  ELSE "none"

AvailableMonths(df) == SelectSeq(month_columns, LAMBDA col : HasColumn(df, col))

\* Fault variant of MonthLoop: 'break' where the code has 'continue', so the
\* first missing or non-numeric cell ends the row.
RECURSIVE MonthLoopBreak(_, _, _, _, _, _)
MonthLoopBreak(df, i, station_name, year, months, records) ==
  IF months = <<>> THEN records
  ELSE LET month == Head(months)
           temp_value == Cell(df, i, month)
       IN IF IsNa(temp_value) \/ ~ToFloat(temp_value).ok THEN records
          ELSE MonthLoopBreak(df, i, station_name, year, Tail(months),
                 Append(records,
                   [Station |-> station_name,
                    Year |-> year,
                    Month |-> month,
                    Temperature |-> ToFloat(temp_value).v,
                    Season |-> season_mapping[month]]))

\* for month in available_months: one record per cell that is present and
\* converts to a number; any other cell is passed over.
RECURSIVE MonthLoop(_, _, _, _, _, _)
MonthLoop(df, i, station_name, year, months, records) ==
  IF months = <<>> THEN records
  ELSE LET month == Head(months)
           temp_value == Cell(df, i, month)
       IN IF IsNa(temp_value)
          THEN MonthLoop(df, i, station_name, year, Tail(months), records)
          ELSE IF ~ToFloat(temp_value).ok
          THEN MonthLoop(df, i, station_name, year, Tail(months), records)
          ELSE MonthLoop(df, i, station_name, year, Tail(months),
                 Append(records,
                   [Station |-> station_name,
                    Year |-> year,
                    Month |-> month,
                    Temperature |-> ToFloat(temp_value).v,
                    Season |-> season_mapping[month]]))

RECURSIVE RowLoop(_, _, _, _, _, _)

\* Fault variant of RowLoop: a row with a missing or non-numeric cell is
\* dropped whole.
RowLoopSkipsRow(df, i, station_col, year, months, records) ==
  IF i > Len(df.rows) THEN records
  ELSE IF \E k \in 1..Len(months) :
            IsNa(Cell(df, i, months[k])) \/ ~ToFloat(Cell(df, i, months[k])).ok
       THEN RowLoop(df, i + 1, station_col, year, months, records)
       ELSE RowLoop(df, i + 1, station_col, year, months,
              MonthLoop(df, i, Cell(df, i, station_col), year, months, records))

\* for _, row in df.iterrows()
RowLoop(df, i, station_col, year, months, records) ==
  IF i > Len(df.rows) THEN records
  ELSE RowLoop(df, i + 1, station_col, year, months,
         MonthLoop(df, i, Cell(df, i, station_col), year, months, records))

\* Fault variant of ProcessFile: a name without a year is given the year 0
\* and the file is processed.
ProcessFileDefaultYear(file) ==
  LET year == IF ExtractYear(file.name).ok THEN ExtractYear(file.name).v ELSE 0
  IN IF ~file.content.parseable THEN <<>>
     ELSE LET df == ReadCsv(file.content)
          IN IF StationCol(df) = "none" \/ AvailableMonths(df) = <<>> THEN <<>>
             ELSE RowLoop(df, 1, StationCol(df), year, AvailableMonths(df), <<>>)

\* The body of the loop over csv_files: the records list of one file, empty
\* when the file is skipped ('continue') or read_csv raises.
ProcessFile(file) ==
  LET year == ExtractYear(file.name)
  IN IF ~year.ok THEN <<>>
     ELSE IF ~file.content.parseable THEN <<>>
     ELSE LET df == ReadCsv(file.content)
              station_col == StationCol(df)
              available_months == AvailableMonths(df)
          IN IF station_col = "none" THEN <<>>
             ELSE IF available_months = <<>> THEN <<>>
             ELSE RowLoop(df, 1, station_col, year.v, available_months, <<>>)

\* for file_path in csv_files: all_dataframes, the records lists of the files
\* in csv_files order, those of the files whose list is empty left out.
FileLoop(csv_files) ==
  SelectSeq([k \in 1..Len(csv_files) |-> ProcessFile(csv_files[k])],
            LAMBDA records : records # <<>>)

\* pd.concat(frames, ignore_index=True)
RECURSIVE Concat(_)
Concat(frames) ==
  IF frames = <<>> THEN <<>> ELSE Head(frames) \o Concat(Tail(frames))

\* Fault variant of LoadAllDataResult: the records of the load are appended to
\* the table already held.
LoadAllDataAppends(dir, data) ==
  IF Glob(dir) = <<>> THEN [raised |-> "FileNotFoundError", data |-> data]
  ELSE IF FileLoop(Glob(dir)) = <<>> THEN [raised |-> "ValueError", data |-> data]
  ELSE [raised |-> "none", data |-> data \o Concat(FileLoop(Glob(dir)))]

\* load_all_data on the folder dir with self.all_data = data: the exception
\* raised ("none" on a normal return) and self.all_data afterwards.  csv_files
\* is bound once, to the value of the glob.
LoadAllDataResult(dir, data) ==
  CHOOSE result \in
    {IF csv_files = <<>> THEN [raised |-> "FileNotFoundError", data |-> data]
     ELSE LET all_dataframes == FileLoop(csv_files)
          IN IF all_dataframes = <<>> THEN [raised |-> "ValueError", data |-> data]
             ELSE [raised |-> "none", data |-> Concat(all_dataframes)]
     : csv_files \in {Glob(dir)}} : TRUE

(***************************************************************************)
(* Aggregation helpers: Series.min/max/mean/std and groupby.               *)
(***************************************************************************)
RECURSIVE SeqSum(_)
SeqSum(xs) == IF xs = <<>> THEN 0 ELSE Head(xs) + SeqSum(Tail(xs))

SeqMin(xs) == CHOOSE x \in {xs[i] : i \in 1..Len(xs)} : \A j \in 1..Len(xs) : x <= xs[j]

SeqMax(xs) == CHOOSE x \in {xs[i] : i \in 1..Len(xs)} : \A j \in 1..Len(xs) : x >= xs[j]

\* An exact fraction n/d with d > 0, or the float NaN.
Frac(n, d) == [k |-> "num", n |-> n, d |-> d]

FracNaN == [k |-> "nan", n |-> 0, d |-> 1]

\* a == b and a < b of floats: every comparison with NaN is False.
FracEq(a, b) == a.k = "num" /\ b.k = "num" /\ a.n * b.d = b.n * a.d

FracLess(a, b) == a.k = "num" /\ b.k = "num" /\ a.n * b.d < b.n * a.d

\* Series.mean(): the sum over the count.
Mean(xs) == IF xs = <<>> THEN FracNaN ELSE Frac(SeqSum(xs), Len(xs))

\* The squares of the deviations from the mean, times the square of the count.
RECURSIVE SumSqDev(_, _, _)
SumSqDev(xs, c, total) ==
  IF xs = <<>> THEN 0
  ELSE (c * Head(xs) - total) * (c * Head(xs) - total) + SumSqDev(Tail(xs), c, total)

\* Fault variant of StdDev: the population deviation (ddof = 0), which is 0,
\* not NaN, for a single value.
StdDevPopulation(xs) ==
  IF Len(xs) < 1 THEN FracNaN
  ELSE Frac(SumSqDev(xs, Len(xs), SeqSum(xs)), Len(xs) * Len(xs) * Len(xs))

\* Series.std() (ddof = 1), as the variance it is the root of: the squared
\* deviations from the mean over count - 1, NaN for fewer than two values.
StdDev(xs) ==
  IF Len(xs) < 2 THEN FracNaN
  ELSE Frac(SumSqDev(xs, Len(xs), SeqSum(xs)), Len(xs) * Len(xs) * (Len(xs) - 1))

\* The keys of groupby(col): the values of the column, NaN dropped.
GroupKeys(df, col) == {df[i][col] : i \in 1..Len(df)} \ {NaN}

\* The Temperature values of the group of key, in table order.
RECURSIVE GroupTemps(_, _, _)
GroupTemps(df, col, key) ==
  IF df = <<>> THEN <<>>
  ELSE IF Head(df)[col] = key
       THEN <<Head(df).Temperature>> \o GroupTemps(Tail(df), col, key)
       ELSE GroupTemps(Tail(df), col, key)

\* What a method call leaves: the exception it raised ("none": it returned),
\* the report files it opened for writing, and the value it returned.
Outcome(raised, files, value) == [raised |-> raised, written |-> files, ret |-> value]

NoValue == [kind |-> "none"]

(***************************************************************************)
(* calculate_seasonal_averages                                             *)
(***************************************************************************)
season_order == <<"Summer", "Autumn", "Winter", "Spring">>

\* Fault variant of SeasonalAvg: no reindex, so the entries are those of the
\* seasons that are group keys, in the key order of groupby.
SeasonalAvgNoReindex(df) ==
  LET keys == SelectSeq(<<"Autumn", "Spring", "Summer", "Winter">>,
                        LAMBDA se : se \in {df[j].Season : j \in 1..Len(df)})
  IN [i \in 1..Len(keys) |->
        [season |-> keys[i], temp |-> Mean(GroupTemps(df, "Season", keys[i]))]]

\* groupby('Season')['Temperature'].mean().reindex(season_order): one entry
\* per season of season_order, NaN for a season that is no group key.
SeasonalAvg(df) ==
  [i \in 1..Len(season_order) |->
     [season |-> season_order[i],
      temp |-> IF season_order[i] \in {df[j].Season : j \in 1..Len(df)}
               THEN Mean(GroupTemps(df, "Season", season_order[i]))
               ELSE FracNaN]]

\* io: whether open('average_temp.txt', 'w') succeeds.  A table without
\* columns (never loaded) has no 'Season' to group by.
CalculateSeasonalAverages(df, io) ==
  IF df = EmptyDataFrame THEN Outcome("KeyError", {}, NoValue)
  ELSE IF ~io THEN Outcome("OSError", {}, NoValue)
  ELSE Outcome("none", {"average_temp.txt"},
               [kind |-> "seasonal", entries |-> SeasonalAvg(df)])

(***************************************************************************)
(* find_largest_temperature_range                                          *)
(***************************************************************************)
\* groupby('Station')['Temperature'].agg(['min', 'max']) with the Range column.
StationStats(df) ==
  {[Station |-> st,
    min |-> SeqMin(GroupTemps(df, "Station", st)),
    max |-> SeqMax(GroupTemps(df, "Station", st)),
    Range |-> SeqMax(GroupTemps(df, "Station", st)) - SeqMin(GroupTemps(df, "Station", st))]
   : st \in GroupKeys(df, "Station")}

\* station_stats['Range'].max(): the maximum of no rows is NaN.
MaxRange(station_stats) ==
  IF station_stats = {} THEN FracNaN
  ELSE Frac(CHOOSE r \in {row.Range : row \in station_stats} :
              \A row \in station_stats : r >= row.Range, 1)

\* Fault variant of StationsWithMaxRange: the one row of idxmax() in place of
\* every row at the maximum.
StationsWithMaxRangeFirst(df) ==
  IF StationStats(df) = {} THEN {}
  ELSE {CHOOSE row \in StationStats(df) :
          \A other \in StationStats(df) : row.Range >= other.Range}

\* station_stats[station_stats['Range'] == max_range]
StationsWithMaxRange(df) ==
  LET station_stats == StationStats(df)
      max_range == MaxRange(station_stats)
  IN {row \in station_stats : FracEq(Frac(row.Range, 1), max_range)}

\* io: whether open('largest_temp_range_station.txt', 'w') succeeds.
FindLargestTemperatureRange(df, io) ==
  IF df = EmptyDataFrame THEN Outcome("KeyError", {}, NoValue)
  ELSE IF ~io THEN Outcome("OSError", {}, NoValue)
  ELSE Outcome("none", {"largest_temp_range_station.txt"},
               [kind |-> "range", rows |-> StationsWithMaxRange(df)])

(***************************************************************************)
(* analyze_temperature_stability                                           *)
(***************************************************************************)
\* groupby('Station')['Temperature'].std() after dropna(): the stations whose
\* deviation is not NaN.
StationStd(df) ==
  {row \in {[Station |-> st, StdDev |-> StdDev(GroupTemps(df, "Station", st))]
            : st \in GroupKeys(df, "Station")} : row.StdDev.k # "nan"}

\* station_std['StdDev'].min() and .max(), of at least one row.
MinStd(station_std) ==
  (CHOOSE row \in station_std :
     \A other \in station_std : ~FracLess(other.StdDev, row.StdDev)).StdDev

MaxStd(station_std) ==
  (CHOOSE row \in station_std :
     \A other \in station_std : ~FracLess(row.StdDev, other.StdDev)).StdDev

\* station_std[station_std['StdDev'] == min_std]
MostStable(station_std) ==
  {row \in station_std : FracEq(row.StdDev, MinStd(station_std))}

\* station_std[station_std['StdDev'] == max_std]
MostVariable(station_std) ==
  {row \in station_std : FracEq(row.StdDev, MaxStd(station_std))}

\* io: whether open('temperature_stability_stations.txt', 'w') succeeds.  With
\* no station left after dropna() the method returns (None, None) before it
\* opens the file.
AnalyzeTemperatureStability(df, io) ==
  IF df = EmptyDataFrame THEN Outcome("KeyError", {}, NoValue)
  ELSE LET station_std == StationStd(df)
       IN IF station_std = {}
          THEN Outcome("none", {}, [kind |-> "stability", none |-> TRUE,
                                    most_stable |-> {}, most_variable |-> {}])
          ELSE IF ~io THEN Outcome("OSError", {}, NoValue)
          ELSE Outcome("none", {"temperature_stability_stations.txt"},
                       [kind |-> "stability", none |-> FALSE,
                        most_stable |-> MostStable(station_std),
                        most_variable |-> MostVariable(station_std)])

(***************************************************************************)
(* generate_summary_report                                                 *)
(***************************************************************************)
\* sorted(self.all_data['Station'].unique()) raises TypeError when the names
\* are not all of one kind: a str cannot be compared with a float (NaN).
SortedStationsRaises(df) ==
  \E i, j \in 1..Len(df) : df[i].Station.k = "str" /\ df[j].Station.k # "str"

\* io: whether open('analysis_summary.txt', 'w') succeeds.  The file is open,
\* and its first sections written, when a later line raises.
GenerateSummaryReport(df, io) ==
  IF ~io THEN Outcome("OSError", {}, NoValue)
  ELSE IF df = EmptyDataFrame THEN Outcome("KeyError", {"analysis_summary.txt"}, NoValue)
  ELSE IF SortedStationsRaises(df)
       THEN Outcome("TypeError", {"analysis_summary.txt"}, NoValue)
  ELSE Outcome("none", {"analysis_summary.txt"}, NoValue)

(***************************************************************************)
(* run_complete_analysis: which exceptions its handler catches.            *)
(***************************************************************************)
\* The classes derived from Exception among those a stage can raise.
ExceptionSubclasses == {"FileNotFoundError", "ValueError", "OSError", "KeyError", "TypeError"}

\* Fault variant of HandlerCatches: 'except ValueError'.
HandlerCatchesValueError(e) == e = "ValueError"

\* except Exception as e
HandlerCatches(e) == e \in ExceptionSubclasses

ReportFiles ==
  {"average_temp.txt", "largest_temp_range_station.txt",
   "temperature_stability_stations.txt", "analysis_summary.txt"}

(***************************************************************************)
(* Inputs.  The data folder is a sequence of files in directory order,     *)
(* no two with one name.                                                   *)
(***************************************************************************)
File(name, content) == [name |-> name, content |-> content]

A == <<"A">>

B == <<"B">>

\* Ten files, one for each way the loader can treat a file.
SampleFiles ==
  { \* a_1.csv: two stations, one cell missing
    File(<<"a", "_", "1">> \o Csv,
         Table(<<"STATION_NAME", "January", "June">>,
               << <<A, <<"5">>, <<"1">> >>, <<B, <<"7">>, <<>> >> >>)),
    \* 2.csv: a year without an underscore before it, one station, one record
    File(<<"2">> \o Csv,
         Table(<<"Station", "December">>, << <<A, <<"3">> >> >>)),
    \* b_x.csv: no year in the name
    File(<<"b", "_", "x">> \o Csv,
         Table(<<"STATION_NAME", "January">>, << <<A, <<"4">> >> >>)),
    \* c_1.csv: no station column
    File(<<"c", "_", "1">> \o Csv,
         Table(<<"January", "June">>, << <<<<"5">>, <<"6">> >> >>)),
    \* d_1.csv: no month column
    File(<<"d", "_", "1">> \o Csv,
         Table(<<"station", "Temp">>, << <<A, <<"9">> >> >>)),
    \* e_1.csv: read_csv raises
    File(<<"e", "_", "1">> \o Csv, Unparseable),
    \* f_12.csv: a row without a station name, a cell that is no number
    File(<<"f", "_", "1", "2">> \o Csv,
         Table(<<"STATION_NAME", "March">>, << << <<>>, <<"2">> >>, <<B, <<"x">> >> >>)),
    \* g_1.txt: not a CSV file
    File(<<"g", "_", "1", ".", "t", "x", "t">>,
         Table(<<"STATION_NAME", "January">>, << <<A, <<"4">> >> >>)),
    \* h_1.csv: several station columns
    File(<<"h", "_", "1">> \o Csv,
         Table(<<"station", "STATION_NAME", "September">>, << <<B, A, <<"8">> >> >>)),
    \* i_1.csv: no cell holds a number
    File(<<"i", "_", "1">> \o Csv,
         Table(<<"STATION_NAME", "January">>, << <<A, <<>> >>, <<B, <<"x">> >> >>)) }

DistinctNames(dir) ==
  \A i, j \in 1..Len(dir) : i # j => dir[i].name # dir[j].name

\* Every folder of at most n sample files.
FoldersUpTo(n) ==
  {dir \in UNION {[1..k -> SampleFiles] : k \in 0..n} : DistinctNames(dir)}

SampleFolders == FoldersUpTo(MaxFiles)

\* r_3.csv: a table of STATION_NAME, January, June whose every month cell is,
\* independently, empty, text that is no number, or the text of a number.
CellKinds == {"empty", "text", "number"}

DigitChars == <<"0", "1", "2", "3", "4", "5", "6", "7", "8", "9">>

CellText(kind, i, c) ==
  CASE kind = "empty" -> <<>>
    [] kind = "text" -> <<"x">>
    [] kind = "number" -> <<DigitChars[((2 * (i - 1) + c) % 10) + 1]>>

EnumeratedFiles ==
  UNION {{File(<<"r", "_", "3">> \o Csv,
               Table(<<"STATION_NAME", "January", "June">>,
                     [i \in 1..n |-> <<IF i % 2 = 1 THEN A ELSE B,
                                       CellText(kinds[i][1], i, 1),
                                       CellText(kinds[i][2], i, 2)>>]))
          : kinds \in [1..n -> [1..2 -> CellKinds]]} : n \in 0..MaxRows}

\* The files an enumerated file is put next to: a_1.csv (loaded) and b_x.csv
\* (skipped).
Companions ==
  {f \in SampleFiles : f.name \in {<<"a", "_", "1">> \o Csv, <<"b", "_", "x">> \o Csv}}

\* The folders load_all_data is checked on: the sample folders, and an
\* enumerated file alone, before or after a companion.
LoadFolders ==
  SampleFolders
    \cup {<<f>> : f \in EnumeratedFiles}
    \cup {<<f, c>> : f \in EnumeratedFiles, c \in Companions}
    \cup {<<c, f>> : f \in EnumeratedFiles, c \in Companions}

(***************************************************************************)
(* The tables the aggregations are checked on.  A table lists its records  *)
(* in one canonical order: no aggregation reads the order of the rows.     *)
(***************************************************************************)
Record(station, year, month, temp) ==
  [Station |-> station, Year |-> year, Month |-> month, Temperature |-> temp,
   Season |-> season_mapping[month]]

SeasonMonths == <<"December", "January", "April", "July", "October">>

Stations == <<Str(A), Str(B), NaN>>

\* Every non-decreasing sequence of at most n numbers of lo..k.
RECURSIVE Ascending(_, _, _)
Ascending(lo, k, n) ==
  IF n = 0 THEN {<<>>}
  ELSE {<<>>} \cup UNION {{<<x>> \o ix : ix \in Ascending(x, k, n - 1)} : x \in lo..k}

\* Every table of at most MaxRecords records, of year 1, whose station is one
\* of stations, month one of months and temperature one of 0..MaxTemp.
Tables(stations, months) ==
  LET temps == MaxTemp + 1
      RecordOf(x) ==
        Record(stations[((x - 1) \div (temps * Len(months))) + 1], 1,
               months[(((x - 1) \div temps) % Len(months)) + 1],
               (x - 1) % temps)
  IN {[i \in 1..Len(ix) |-> RecordOf(ix[i])]
      : ix \in Ascending(1, Len(stations) * Len(months) * temps, MaxRecords)}

(***************************************************************************)
(* State.                                                                  *)
(***************************************************************************)
VARIABLES
  folder,      \* the entries of the data folder, in directory order
  all_data,    \* self.all_data: the long table, a sequence of records
  pc,          \* where run_complete_analysis stands ("idle": not in it)
  lastCall,    \* the method called last ("none": none since the folder was set)
  raised,      \* the exception the last call or stage raised ("none": none)
  ret,         \* the value the last aggregation returned
  written,     \* the report files opened for writing so far
  started,     \* the stages run_complete_analysis has started, in order
  banner,      \* whether 'ANALYSIS COMPLETE!' and the file list were printed
  propagated,  \* whether run_complete_analysis let an exception out
  replaced     \* whether the data folder was replaced behind the program

vars ==
  <<folder, all_data, pc, lastCall, raised, ret, written, started, banner,
    propagated, replaced>>

\* Nothing called, raised or written yet.
Fresh ==
  /\ pc = "idle"
  /\ lastCall = "none"
  /\ raised = "none"
  /\ ret = NoValue
  /\ written = {}
  /\ started = <<>>
  /\ banner = FALSE
  /\ propagated = FALSE
  /\ replaced = FALSE

\* WeatherAnalyzer(): all_data = pd.DataFrame().
Constructed == all_data = EmptyDataFrame /\ Fresh

Init == folder \in SampleFolders /\ Constructed

(***************************************************************************)
(* run_complete_analysis, one action per stage.                            *)
(***************************************************************************)
RunStart ==
  /\ pc = "idle"
  /\ lastCall = "none"
  /\ pc' = "load"
  /\ lastCall' = "run_complete_analysis"
  /\ UNCHANGED <<folder, all_data, raised, ret, written, started, banner,
                 propagated, replaced>>

\* Fault variant of StageDone: the stage's exception is swallowed and the next
\* stage runs.
StageDoneContinues(stage, o, next) ==
  /\ started' = Append(started, stage)
  /\ raised' = o.raised
  /\ written' = written \cup o.written
  /\ ret' = o.ret
  /\ pc' = next

\* A stage that left outcome o: on an exception control goes to the handler,
\* otherwise to the next stage.
StageDone(stage, o, next) ==
  /\ started' = Append(started, stage)
  /\ raised' = o.raised
  /\ written' = written \cup o.written
  /\ ret' = o.ret
  /\ pc' = IF o.raised = "none" THEN next ELSE "except"

RunLoad ==
  /\ pc = "load"
  /\ \E r \in {LoadAllDataResult(folder, all_data)} :
       /\ all_data' = r.data
       /\ StageDone("load_all_data", Outcome(r.raised, {}, NoValue), "seasonal")
  /\ UNCHANGED <<folder, lastCall, banner, propagated, replaced>>

RunSeasonal ==
  /\ pc = "seasonal"
  /\ \E io \in BOOLEAN :
       \E o \in {CalculateSeasonalAverages(all_data, io)} : StageDone("calculate_seasonal_averages", o, "range")
  /\ UNCHANGED <<folder, all_data, lastCall, banner, propagated, replaced>>

RunRange ==
  /\ pc = "range"
  /\ \E io \in BOOLEAN :
       \E o \in {FindLargestTemperatureRange(all_data, io)} : StageDone("find_largest_temperature_range", o, "stability")
  /\ UNCHANGED <<folder, all_data, lastCall, banner, propagated, replaced>>

RunStability ==
  /\ pc = "stability"
  /\ \E io \in BOOLEAN :
       \E o \in {AnalyzeTemperatureStability(all_data, io)} : StageDone("analyze_temperature_stability", o, "summary")
  /\ UNCHANGED <<folder, all_data, lastCall, banner, propagated, replaced>>

RunSummary ==
  /\ pc = "summary"
  /\ \E io \in BOOLEAN :
       \E o \in {GenerateSummaryReport(all_data, io)} : StageDone("generate_summary_report", o, "complete")
  /\ UNCHANGED <<folder, all_data, lastCall, banner, propagated, replaced>>

\* 'ANALYSIS COMPLETE!', the list of output files and the results preview.
RunComplete ==
  /\ pc = "complete"
  /\ banner' = TRUE
  /\ pc' = "returned"
  /\ UNCHANGED <<folder, all_data, lastCall, raised, ret, written, started,
                 propagated, replaced>>

\* except Exception as e: the message is printed and the method returns; an
\* exception the clause does not catch leaves the method.
RunExcept ==
  /\ pc = "except"
  /\ propagated' = ~HandlerCatches(raised)
  /\ pc' = "returned"
  /\ UNCHANGED <<folder, all_data, lastCall, raised, ret, written, started,
                 banner, replaced>>

Next ==
  \/ RunStart
  \/ RunLoad
  \/ RunSeasonal
  \/ RunRange
  \/ RunStability
  \/ RunSummary
  \/ RunComplete
  \/ RunExcept

Spec == Init /\ [][Next]_vars

\* The interpreter runs the method to its end: every enabled step is taken.
FairSpec == Spec /\ WF_vars(Next)

(***************************************************************************)
(* The methods called from outside, one action per method.                 *)
(***************************************************************************)
LoadAllData ==
  /\ pc = "idle"
  /\ \E r \in {LoadAllDataResult(folder, all_data)} :
       /\ all_data' = r.data
       /\ raised' = r.raised
  /\ lastCall' = "load_all_data"
  /\ UNCHANGED <<folder, pc, ret, written, started, banner, propagated, replaced>>

\* The environment replaces the content of the data folder, once, after the
\* folder a_1.csv alone has been loaded.
SeedFolder ==
  <<CHOOSE f \in SampleFiles : f.name = <<"a", "_", "1">> \o Csv>>

ReplaceFolder ==
  /\ pc = "idle"
  /\ ~replaced
  /\ folder = SeedFolder
  /\ lastCall = "load_all_data"
  /\ folder' \in LoadFolders
  /\ replaced' = TRUE
  /\ lastCall' = "none"
  /\ UNCHANGED <<all_data, pc, raised, ret, written, started, banner, propagated>>

InitLoad == folder \in LoadFolders /\ Constructed

NextLoad == LoadAllData \/ ReplaceFolder

SpecLoad == InitLoad /\ [][NextLoad]_vars

\* A method that left outcome o to its caller.
Called(method, o) ==
  /\ pc = "idle"
  /\ lastCall = "none"
  /\ lastCall' = method
  /\ raised' = o.raised
  /\ ret' = o.ret
  /\ written' = written \cup o.written
  /\ UNCHANGED <<folder, all_data, pc, started, banner, propagated, replaced>>

CallSeasonalAverages ==
  \E io \in BOOLEAN :
    \E o \in {CalculateSeasonalAverages(all_data, io)} : Called("calculate_seasonal_averages", o)

CallLargestRange ==
  \E io \in BOOLEAN :
    \E o \in {FindLargestTemperatureRange(all_data, io)} : Called("find_largest_temperature_range", o)

CallStability ==
  \E io \in BOOLEAN :
    \E o \in {AnalyzeTemperatureStability(all_data, io)} : Called("analyze_temperature_stability", o)

\* The aggregations are functions of all_data alone: each is checked on every
\* table of a bounded set, which stands for the table an earlier load left.
InitSeasons == folder = <<>> /\ all_data \in Tables(<<Str(A)>>, SeasonMonths) /\ Fresh

NextSeasons == CallSeasonalAverages

SpecSeasons == InitSeasons /\ [][NextSeasons]_vars

InitStations == folder = <<>> /\ all_data \in Tables(Stations, <<"January">>) /\ Fresh

NextStations == CallLargestRange \/ CallStability

SpecStations == InitStations /\ [][NextStations]_vars


(***************************************************************************)
(* What the claims speak of, stated on the text of the files.              *)
(***************************************************************************)
IsCsvFile(f) == IsSuffix(Csv, f.name)

HeaderHas(f, col) == \E j \in 1..Len(f.content.header) : f.content.header[j] = col

StationColumns == <<"STATION_NAME", "Station", "station">>

HasStationColumn(f) == \E k \in 1..3 : HeaderHas(f, StationColumns[k])

HasMonthColumn(f) == \E k \in 1..12 : HeaderHas(f, month_columns[k])

CellTextAt(f, i, col) ==
  f.content.lines[i][CHOOSE j \in 1..Len(f.content.header) : f.content.header[j] = col]

\* The station name of line i: the cell of the first station column there is
\* (the station cells of the inputs are names or empty, never numerals).
StationNameAt(f, i) ==
  LET col == StationColumns[CHOOSE k \in 1..3 :
                 /\ HeaderHas(f, StationColumns[k])
                 /\ \A l \in 1..(k - 1) : ~HeaderHas(f, StationColumns[l])]
  IN IF CellTextAt(f, i, col) = <<>> THEN NaN ELSE Str(CellTextAt(f, i, col))

\* The cell is present and converts to a number.
CellIsNumber(f, i, m) == CellTextAt(f, i, m) # <<>> /\ ParseFloat[CellTextAt(f, i, m)].ok

\* The year a name carries: the text after its last underscore (all of the
\* name when it has none) without any '.csv', read as an integer.
YearOfName(name) ==
  LET us == {k \in 1..Len(name) : name[k] = "_"}
      from == IF us = {} THEN 1 ELSE (CHOOSE k \in us : \A l \in us : l <= k) + 1
  IN ParseInt[RemoveAll(SubSeq(name, from, Len(name)), Csv)]

\* A file the loader takes records from: a CSV file with a year in its name
\* that parses and has a station column.
Usable(f) ==
  IsCsvFile(f) /\ YearOfName(f.name).ok /\ f.content.parseable /\ HasStationColumn(f)

SeasonOfMonth(m) ==
  IF m \in {"December", "January", "February"} THEN "Summer"
  ELSE IF m \in {"March", "April", "May"} THEN "Autumn"
  ELSE IF m \in {"June", "July", "August"} THEN "Winter"
  ELSE "Spring"

\* The (file, line, month) triples of dir that hold a temperature.
Triples(dir) ==
  UNION {UNION {{<<f, i, month_columns[k]>> : k \in
                   {k \in 1..12 : /\ HeaderHas(dir[f], month_columns[k])
                                  /\ CellIsNumber(dir[f], i, month_columns[k])}}
                : i \in 1..Len(dir[f].content.lines)}
         : f \in {f \in 1..Len(dir) : Usable(dir[f])}}

RecordOfTriple(dir, t) ==
  [Station |-> StationNameAt(dir[t[1]], t[2]),
   Year |-> YearOfName(dir[t[1]].name).v,
   Month |-> t[3],
   Temperature |-> ParseFloat[CellTextAt(dir[t[1]], t[2], t[3])].v,
   Season |-> SeasonOfMonth(t[3])]

Loaded == lastCall = "load_all_data" /\ raised = "none"

\* C1: after load_all_data succeeds, all_data holds exactly one record for
\* every (file, row, month column) triple whose file has a year in its name,
\* a station column and that month column and whose cell is present and a
\* number, and no other record; the record carries the row's station name,
\* the file's year, the month, the cell's number and the month's season.
C1_ReshapeExact ==
  Loaded =>
    LET E == Triples(folder)
    IN /\ Len(all_data) = Cardinality(E)
       /\ \A t \in E :
            Cardinality({k \in 1..Len(all_data) : all_data[k] = RecordOfTriple(folder, t)})
              = Cardinality({u \in E : RecordOfTriple(folder, u) = RecordOfTriple(folder, t)})

\* Two files of different years contribute, one line contributes two records,
\* and some month cell contributes none.
C1_Witness ==
  /\ Loaded
  /\ \E j, k \in 1..Len(all_data) : all_data[j].Year # all_data[k].Year
  /\ \E t, u \in Triples(folder) : t[1] = u[1] /\ t[2] = u[2] /\ t[3] # u[3]
  /\ \E f \in 1..Len(folder) :
       /\ Usable(folder[f])
       /\ \E i \in 1..Len(folder[f].content.lines) :
            HeaderHas(folder[f], "June") /\ ~CellIsNumber(folder[f], i, "June")

RECURSIVE Flatten(_)
Flatten(ss) == IF ss = <<>> THEN <<>> ELSE Head(ss) \o Flatten(Tail(ss))

\* The month columns of line i whose cell holds a number, in calendar order.
NumberMonths(f, i) ==
  SelectSeq(month_columns, LAMBDA m : HeaderHas(f, m) /\ CellIsNumber(f, i, m))

\* Whether some month cell of line i is missing or no number.
MalformedRow(f, i) ==
  \E k \in 1..12 : HeaderHas(f, month_columns[k]) /\ ~CellIsNumber(f, i, month_columns[k])

\* The records of dir when every cell that holds a number gives one
\* (skipRows = FALSE), or only the cells of rows without a malformed cell
\* (skipRows = TRUE).
RecordsBy(dir, skipRows) ==
  Flatten([f \in 1..Len(dir) |->
    IF ~Usable(dir[f]) THEN <<>>
    ELSE Flatten([i \in 1..Len(dir[f].content.lines) |->
           IF skipRows /\ MalformedRow(dir[f], i) THEN <<>>
           ELSE [k \in 1..Len(NumberMonths(dir[f], i)) |->
                   RecordOfTriple(dir, <<f, i, NumberMonths(dir[f], i)[k]>>)]])])

\* C4 as stated: a row with a missing or non-numeric temperature is skipped
\* and contributes no record, every other row contributes its records.
C4_RowSkipped == Loaded => all_data = RecordsBy(folder, TRUE)

\* C4 as amended: a missing or non-numeric cell is passed over and gives no
\* record; every other cell, of the same row and of every other row, gives its
\* record, in file, row and calendar order; the load fails for lack of data
\* only when no cell of any file holds a number.
C4_CellSkipped ==
  /\ Loaded => all_data = RecordsBy(folder, FALSE)
  /\ (lastCall = "load_all_data" /\ raised = "ValueError") => Triples(folder) = {}

\* A loaded row with one malformed cell and one number.
C4_Witness ==
  /\ Loaded
  /\ \E t \in Triples(folder) : MalformedRow(folder[t[1]], t[2])

NoCsvFile(dir) == \A f \in 1..Len(dir) : ~IsCsvFile(dir[f])

RemoveAt(dir, d) == SubSeq(dir, 1, d - 1) \o SubSeq(dir, d + 1, Len(dir))

\* The name ends in _<integer>.csv.
EndsInUnderscoreInteger(name) ==
  /\ IsSuffix(Csv, name)
  /\ \E k \in 1..(Len(name) - Len(Csv)) :
       name[k] = "_" /\ ParseInt[SubSeq(name, k + 1, Len(name) - Len(Csv))].ok

DefectiveContent(f) ==
  ~f.content.parseable \/ ~HasStationColumn(f) \/ ~HasMonthColumn(f)

\* The load of the folder gave what the load of the folder without its entry d
\* gives: it succeeded exactly if that one does, with the same records.
SameWithout(d) ==
  LET r == LoadAllDataResult(RemoveAt(folder, d), EmptyDataFrame)
  IN /\ raised = "none" <=> r.raised = "none"
     /\ raised = "none" => all_data = r.data

\* C9 as stated: a CSV file whose name does not end in _<integer>.csv, or
\* without a station column, or without a month column, or whose processing
\* raises, contributes no record, and the other files contribute what they
\* contribute without it.
C9_AsStated ==
  lastCall = "load_all_data" =>
    \A d \in 1..Len(folder) :
      (IsCsvFile(folder[d])
         /\ (~EndsInUnderscoreInteger(folder[d].name) \/ DefectiveContent(folder[d])))
      => SameWithout(d)

\* C9 as amended: a CSV file from whose name no year can be read (the text
\* after the last underscore, or the whole name when it has none, is no
\* integer once '.csv' is removed), or without a station column, or without a
\* month column, or whose processing raises, contributes no record, and the
\* other files contribute what they contribute without it.
C9_DefectiveFileIgnored ==
  lastCall = "load_all_data" =>
    \A d \in 1..Len(folder) :
      (IsCsvFile(folder[d])
         /\ (~YearOfName(folder[d].name).ok \/ DefectiveContent(folder[d])))
      => (ProcessFile(folder[d]) = <<>> /\ SameWithout(d))

\* A load that succeeded although a defective file came before a usable one.
C9_Witness ==
  /\ Loaded
  /\ \E d, g \in 1..Len(folder) :
       /\ d < g
       /\ IsCsvFile(folder[d])
       /\ (~YearOfName(folder[d].name).ok \/ DefectiveContent(folder[d]))
       /\ \E t \in Triples(folder) : t[1] = g

(***************************************************************************)
(* The aggregations, stated on the records of all_data.                    *)
(***************************************************************************)
RECURSIVE TempSum(_)
TempSum(S) ==
  IF S = {} THEN 0
  ELSE LET j == CHOOSE j \in S : TRUE
       IN all_data[j].Temperature + TempSum(S \ {j})

RECURSIVE TempSquares(_)
TempSquares(S) ==
  IF S = {} THEN 0
  ELSE LET j == CHOOSE j \in S : TRUE
       IN all_data[j].Temperature * all_data[j].Temperature + TempSquares(S \ {j})

SeasonRecords(se) == {j \in 1..Len(all_data) : all_data[j].Season = se}

Returned(method) == lastCall = method /\ raised = "none"

\* C5: calculate_seasonal_averages returns four entries in the order Summer,
\* Autumn, Winter, Spring; each is the sum of the temperatures of the records
\* of that season over their count, NaN for a season without records; every
\* record belongs to exactly one entry.
C5_SeasonalAverages ==
  Returned("calculate_seasonal_averages") =>
    /\ ret.kind = "seasonal"
    /\ Len(ret.entries) = 4
    /\ ret.entries[1].season = "Summer"
    /\ ret.entries[2].season = "Autumn"
    /\ ret.entries[3].season = "Winter"
    /\ ret.entries[4].season = "Spring"
    /\ \A i \in 1..4 :
         LET S == SeasonRecords(ret.entries[i].season)
             e == ret.entries[i].temp
         IN IF S = {} THEN e.k = "nan"
            ELSE e.k = "num" /\ e.d > 0 /\ e.n * Cardinality(S) = TempSum(S) * e.d
    /\ \A j \in 1..Len(all_data) :
         Cardinality({i \in 1..4 : ret.entries[i].season = all_data[j].Season}) = 1

\* A season with two different temperatures, another season with a record,
\* and a season without any.
C5_Witness ==
  /\ Returned("calculate_seasonal_averages")
  /\ \E j, k \in 1..Len(all_data) :
       /\ all_data[j].Season = all_data[k].Season
       /\ all_data[j].Temperature # all_data[k].Temperature
  /\ \E j, k \in 1..Len(all_data) : all_data[j].Season # all_data[k].Season
  /\ \E i \in 1..4 : ret.entries[i].temp.k = "nan"

\* The stations of all_data: the station names of its records, NaN apart.
StationNames == {all_data[j].Station : j \in {j \in 1..Len(all_data) : all_data[j].Station.k # "nan"}}

StationRecords(st) == {j \in 1..Len(all_data) : all_data[j].Station = st}

RangeOf(st) ==
  LET temps == {all_data[j].Temperature : j \in StationRecords(st)}
  IN (CHOOSE hi \in temps : \A x \in temps : x <= hi)
       - (CHOOSE lo \in temps : \A x \in temps : lo <= x)

\* C6: find_largest_temperature_range returns one row for each station whose
\* range, maximum minus minimum over all its records, is the largest range
\* of any station, and no other row; the result is not empty when a record has
\* a station name; a station with one record has range 0.
C6_LargestRange ==
  Returned("find_largest_temperature_range") =>
    /\ ret.kind = "range"
    /\ {row.Station : row \in ret.rows}
         = {st \in StationNames : \A other \in StationNames : RangeOf(st) >= RangeOf(other)}
    /\ Cardinality(ret.rows) = Cardinality({row.Station : row \in ret.rows})
    /\ StationNames # {} => ret.rows # {}
    /\ \A row \in ret.rows :
         /\ row.Range = RangeOf(row.Station)
         /\ Cardinality(StationRecords(row.Station)) = 1 => row.Range = 0

\* Two stations tied at a range above 0.
C6_Witness ==
  /\ Returned("find_largest_temperature_range")
  /\ Cardinality(ret.rows) = 2
  /\ \E row \in ret.rows : row.Range > 0

\* The sample variance of a station with at least two records, as the
\* fraction VarNum / VarDen.
VarNum(st) ==
  Cardinality(StationRecords(st)) * TempSquares(StationRecords(st))
    - TempSum(StationRecords(st)) * TempSum(StationRecords(st))

VarDen(st) == Cardinality(StationRecords(st)) * (Cardinality(StationRecords(st)) - 1)

DeviationAtMost(a, b) == VarNum(a) * VarDen(b) <= VarNum(b) * VarDen(a)

\* C7: analyze_temperature_stability considers the stations with at least two
\* records; it returns as most stable those of least sample standard
\* deviation and as most variable those of greatest, ties included, both sets
\* non-empty and equal exactly when all considered stations have one
\* deviation; with no station of two records it returns (None, None).
C7_Stability ==
  Returned("analyze_temperature_stability") =>
    LET considered == {st \in StationNames : Cardinality(StationRecords(st)) >= 2}
        stable == {row.Station : row \in ret.most_stable}
        variable == {row.Station : row \in ret.most_variable}
    IN /\ ret.kind = "stability"
       /\ ret.none <=> considered = {}
       /\ ~ret.none =>
            /\ stable = {st \in considered : \A o \in considered : DeviationAtMost(st, o)}
            /\ variable = {st \in considered : \A o \in considered : DeviationAtMost(o, st)}
            /\ Cardinality(ret.most_stable) = Cardinality(stable)
            /\ Cardinality(ret.most_variable) = Cardinality(variable)
            /\ stable # {} /\ variable # {}
            /\ stable = variable
                 <=> \A a, b \in considered : DeviationAtMost(a, b) /\ DeviationAtMost(b, a)

\* Two considered stations of different deviations.
C7_Witness ==
  /\ Returned("analyze_temperature_stability")
  /\ ~ret.none
  /\ ret.most_stable # ret.most_variable

(***************************************************************************)
(* The pipeline.                                                           *)
(***************************************************************************)
StageOrder ==
  <<"load_all_data", "calculate_seasonal_averages", "find_largest_temperature_range",
    "analyze_temperature_stability", "generate_summary_report">>

\* C2: the stages of run_complete_analysis start at most once each and in the
\* order load_all_data, calculate_seasonal_averages,
\* find_largest_temperature_range, analyze_temperature_stability,
\* generate_summary_report; a stage after the first starts only when
\* load_all_data has filled all_data, and none starts once a stage has failed.
C2_LinearPass ==
  /\ [](/\ Len(started) <= Len(StageOrder)
        /\ \A i \in 1..Len(started) : started[i] = StageOrder[i])
  /\ [][started' # started =>
          /\ started' = Append(started, StageOrder[Len(started) + 1])
          /\ raised = "none"
          /\ Len(started) >= 1 => all_data # EmptyDataFrame]_vars

\* A run that ended after its third stage failed.
C2_Witness ==
  /\ pc = "returned"
  /\ raised = "OSError"
  /\ started = SubSeq(StageOrder, 1, 3)

\* C3: when run_complete_analysis prints 'ANALYSIS COMPLETE!' and the list of
\* output files, all four report files have been written in the run.
C3_AllReportsWritten == banner => ReportFiles \subseteq written

\* C10: run_complete_analysis lets no exception out and ends; when
\* load_all_data fails no report file is written; when a later stage fails
\* the reports written by the stages before it stay written, no further stage
\* runs and 'ANALYSIS COMPLETE!' is not printed.
C10_FailureContained ==
  /\ [](~propagated)
  /\ <>(pc = "returned")
  /\ []((raised # "none" /\ started = <<"load_all_data">>) => written = {})
  /\ []((raised # "none" /\ Len(started) >= 3) => "average_temp.txt" \in written)
  /\ []((raised # "none" /\ Len(started) >= 4)
          => "largest_temp_range_station.txt" \in written)
  /\ [](raised # "none" => ~banner)
  /\ [][written \subseteq written']_vars
  /\ [][raised # "none" => (started' = started /\ banner' = banner)]_vars

\* A run that ended in its handler after the summary stage raised on the
\* station names, the three reports before it written.
C10_Witness ==
  /\ pc = "returned"
  /\ raised = "TypeError"
  /\ started = StageOrder
  /\ ReportFiles \subseteq written

====
